---- MODULE Spec2Model ----
(***************************************************************************)
(* Model of the session-scoped, two-stage conversation pipeline of the     *)
(* LangChain chatbot (src/src/chatbot.py) and of its command loop          *)
(* (src/main.py).                                                          *)
(*                                                                         *)
(* Text is a sequence of fragments.  Text typed by the user or produced    *)
(* by the model is one character per fragment, so strip(), lower(),        *)
(* len() and slicing are computed character by character.  The fixed       *)
(* literals of the program (prompts, canned replies) are one fragment.     *)
(***************************************************************************)
EXTENDS Integers, Sequences, FiniteSets, TLC

VARIABLES
    memory_store,   \* Chatbot._memory_store: session id -> list of messages
    running,        \* main(): the `while True` loop has not left yet
    line,           \* main(): the line last returned by input()
    op,             \* the operation that ran last
    arg,            \* the argument given to it
    ret,            \* what it returned: [raised, value]
    calls,          \* the llm invocations it made, in order
    before,         \* memory_store as it was when the operation started
    succeeded       \* how many chats succeeded since the last clear

vars == <<memory_store, running, line, op, arg, ret, calls, before, succeeded>>

----------------------------------------------------------------------------
(* Bounds of the model *)

MaxTurns == 4

(* Program constants *)

MAX_MEMORY_SIZE == 10
SUMMARY_MESSAGES == 6
SUMMARY_CHARS == 100

SYSTEM_MESSAGE == <<"You are a helpful AI assistant. \nYou should be friendly, informative, and try to help the user with their questions.\nKeep your responses simple and direct but complete.">>

FORMAT_INSTRUCTION == <<"Rewrite the following assistant draft into a concise, helpful answer. Use short paragraphs and bullet points when listing steps or options.">>

FALLBACK_GREETING == <<"Hello, how can I help you?">>

ERROR_PREFIX == <<"Sorry, I encountered an error: ">>

NO_HISTORY == <<"No conversation history yet.">>

SUMMARY_HEADER == <<"Recent conversation:\n">>

DEFAULT_SESSION == "default"

----------------------------------------------------------------------------
(* Inputs *)

LongText == [i \in 1..(SUMMARY_CHARS + 1) |-> "x"]

RawInputs == { <<" ">>, <<" ", "h", " ">> }

DraftTexts == { <<"d">>, LongText }

FinalTexts == { <<"d">>, <<"f">> }

FailureReasons == { <<"connection refused">> }

DraftOutcomes ==
    {[ok |-> TRUE, text |-> t] : t \in DraftTexts}
        \cup {[ok |-> FALSE, text |-> e] : e \in FailureReasons}

FormatOutcomes ==
    {[ok |-> TRUE, text |-> t] : t \in FinalTexts}
        \cup {[ok |-> FALSE, text |-> e] : e \in FailureReasons}

SessionIds == {DEFAULT_SESSION, "other"}

Lines ==
    { <<"q","u","i","t">>, <<"e","x","i","t">>, <<"B","y","e"," ">>,
      <<"c","l","e","a","r">>, <<"M","e","m","o","r","y">>,
      <<" ">>, <<" ","h">> }

----------------------------------------------------------------------------
(* Python string operations *)

Whitespace == {" ", "\t", "\n"}

UpperCase == <<"A","B","C","D","E","F","G","H","I","J","K","L","M",
               "N","O","P","Q","R","S","T","U","V","W","X","Y","Z">>

LowerCase == <<"a","b","c","d","e","f","g","h","i","j","k","l","m",
               "n","o","p","q","r","s","t","u","v","w","x","y","z">>

lower_char(c) ==
    IF \E i \in DOMAIN UpperCase : UpperCase[i] = c
    THEN LowerCase[CHOOSE i \in DOMAIN UpperCase : UpperCase[i] = c]
    ELSE c

lower(s) == [i \in 1..Len(s) |-> lower_char(s[i])]

RECURSIVE lstrip(_)
lstrip(s) ==
    IF s # <<>> /\ Head(s) \in Whitespace THEN lstrip(Tail(s)) ELSE s

RECURSIVE rstrip(_)
rstrip(s) ==
    IF s # <<>> /\ s[Len(s)] \in Whitespace
    THEN rstrip(SubSeq(s, 1, Len(s) - 1))
    ELSE s

strip(s) == rstrip(lstrip(s))

----------------------------------------------------------------------------
(* Messages and the history store *)

SystemMessage(content) == [type |-> "system", content |-> content]
HumanMessage(content) == [type |-> "human", content |-> content]
AIMessage(content) == [type |-> "ai", content |-> content]

EmptyStore == [s \in {} |-> <<>>]

NoReturn == [raised |-> FALSE, value |-> <<>>]

\* The messages of a session, for an observer that does not create it.
Transcript(store, session_id) ==
    IF session_id \in DOMAIN store THEN store[session_id] ELSE <<>>

----------------------------------------------------------------------------
(* Chatbot *)

\* Chatbot.get_session_history: the store after the lookup, which registers
\* an empty history for an id it has not seen.
get_session_history(store, session_id) ==
    IF session_id \in DOMAIN store
    THEN store
    ELSE store @@ (session_id :> <<>>)

\* Chatbot._clean_input: the dict it returns holds the key "input" alone.
clean_input(data) ==
    LET text == strip(IF "input" \in DOMAIN data THEN data.input ELSE <<>>)
    IN  IF text = <<>>
        THEN [input |-> FALLBACK_GREETING]
        ELSE [input |-> text]

\* The prompt of _create_conversation_chain: system, the optional
\* placeholder chat_history (nothing when the key is absent), human.
prompt(data) ==
    <<SystemMessage(SYSTEM_MESSAGE)>>
        \o (IF "chat_history" \in DOMAIN data THEN data.chat_history ELSE <<>>)
        \o <<HumanMessage(data.input)>>

\* format_prompt of Chatbot.__init__: the instruction and the draft.
format_prompt(data) ==
    <<SystemMessage(FORMAT_INSTRUCTION), HumanMessage(data.draft)>>

\* core_chain: RunnableLambda(_clean_input) | prompt | llm, the llm's
\* outcome being o.
core_chain(data, o) ==
    [request |-> prompt(clean_input(data)), outcome |-> o]

\* RunnableWithMessageHistory around core_chain, session "default": the
\* history is loaded under chat_history, core_chain runs on the input as
\* given, and when it ends without error the input message and the output
\* message are added to the history.
conversation_chain(store, user_input, o) ==
    LET loaded == get_session_history(store, DEFAULT_SESSION)
        data == [input |-> user_input,
                 chat_history |-> loaded[DEFAULT_SESSION]]
        call == core_chain(data, o)
    IN  IF o.ok
        THEN [raised |-> FALSE,
              value |-> o.text,
              store |-> [loaded EXCEPT ![DEFAULT_SESSION] =
                            @ \o <<HumanMessage(user_input), AIMessage(o.text)>>],
              calls |-> <<call>>]
        ELSE [raised |-> TRUE,
              value |-> o.text,
              store |-> loaded,
              calls |-> <<call>>]

formatted_chain_reformat_always(store, user_input, o1, o2) ==
    LET d == conversation_chain(store, user_input, o1)
        call == [request |-> format_prompt([draft |-> d.value]), outcome |-> o2]
    IN  [raised |-> d.raised \/ ~o2.ok,
         value |-> IF d.raised THEN d.value ELSE o2.text,
         store |-> d.store,
         calls |-> d.calls \o <<call>>]

\* formatted_chain: {"draft": conversation_chain} | format_prompt | llm.
formatted_chain(store, user_input, o1, o2) ==
    LET d == conversation_chain(store, user_input, o1)
    IN  IF d.raised
        THEN d
        ELSE LET call == [request |-> format_prompt([draft |-> d.value]),
                          outcome |-> o2]
             IN  [raised |-> ~o2.ok,
                  value |-> o2.text,
                  store |-> d.store,
                  calls |-> d.calls \o <<call>>]

chat_no_except(store, user_input, o1, o2) ==
    formatted_chain(store, user_input, o1, o2)

\* Chatbot.chat: the chain's answer, or the error text when it raised.
chat(store, user_input, o1, o2) ==
    LET r == formatted_chain(store, user_input, o1, o2)
    IN  IF r.raised
        THEN [r EXCEPT !.raised = FALSE, !.value = ERROR_PREFIX \o r.value]
        ELSE r

clear_memory_others_only(store) ==
    [s \in {t \in DOMAIN store : t = DEFAULT_SESSION} |-> store[s]]

\* Chatbot.clear_memory: _memory_store.clear().
clear_memory(store) == EmptyStore

\* message.content[:100] + "..." if len(message.content) > 100 else content
shown_content(content) ==
    IF Len(content) > SUMMARY_CHARS
    THEN SubSeq(content, 1, SUMMARY_CHARS) \o <<"...">>
    ELSE content

\* messages[-6:]
last_messages(messages) ==
    SubSeq(messages,
           IF Len(messages) > SUMMARY_MESSAGES
           THEN Len(messages) - SUMMARY_MESSAGES + 1 ELSE 1,
           Len(messages))

\* The loop of get_memory_summary from its i-th round on.
RECURSIVE summary_loop(_, _, _)
summary_loop(shown, i, summary) ==
    IF i > Len(shown)
    THEN summary
    ELSE LET message == shown[i]
             role == IF message.type = "human" THEN "Human" ELSE "AI"
         IN  summary_loop(shown, i + 1,
                 summary \o <<ToString(i), ". ", role, ": ">>
                         \o shown_content(message.content) \o <<"\n">>)

get_memory_summary_first_six(store) ==
    LET loaded == get_session_history(store, DEFAULT_SESSION)
        messages == loaded[DEFAULT_SESSION]
    IN  [store |-> loaded,
         value |-> IF messages = <<>>
                   THEN NO_HISTORY
                   ELSE summary_loop(
                            SubSeq(messages, 1,
                                   IF Len(messages) > SUMMARY_MESSAGES
                                   THEN SUMMARY_MESSAGES ELSE Len(messages)),
                            1, SUMMARY_HEADER)]

\* Chatbot.get_memory_summary: the text, and the store after the lookup.
get_memory_summary(store) ==
    LET loaded == get_session_history(store, DEFAULT_SESSION)
        messages == loaded[DEFAULT_SESSION]
    IN  [store |-> loaded,
         value |-> IF messages = <<>>
                   THEN NO_HISTORY
                   ELSE summary_loop(last_messages(messages), 1, SUMMARY_HEADER)]

----------------------------------------------------------------------------
(* Operations of the Chatbot, called by any client *)

Init ==
    /\ memory_store = EmptyStore
    /\ running = TRUE
    /\ line = <<>>
    /\ op = "init"
    /\ arg = <<>>
    /\ ret = NoReturn
    /\ calls = <<>>
    /\ before = EmptyStore
    /\ succeeded = 0

\* The model stops taking chats once the session holds MaxTurns turns.
CanChat == Len(Transcript(memory_store, DEFAULT_SESSION)) < 2 * MaxTurns

DoChat(user_input, o1, o2) ==
    LET r == chat(memory_store, user_input, o1, o2)
    IN  /\ memory_store' = r.store
        /\ op' = "chat"
        /\ arg' = user_input
        /\ ret' = [raised |-> r.raised, value |-> r.value]
        /\ calls' = r.calls
        /\ before' = memory_store
        /\ succeeded' = IF o1.ok /\ o2.ok THEN succeeded + 1 ELSE succeeded

DoClear ==
    /\ memory_store' = clear_memory(memory_store)
    /\ op' = "clear"
    /\ arg' = <<>>
    /\ ret' = NoReturn
    /\ calls' = <<>>
    /\ before' = memory_store
    /\ succeeded' = 0

DoSummary ==
    LET r == get_memory_summary(memory_store)
    IN  /\ memory_store' = r.store
        /\ op' = "summary"
        /\ arg' = <<>>
        /\ ret' = [raised |-> FALSE, value |-> r.value]
        /\ calls' = <<>>
        /\ before' = memory_store
        /\ UNCHANGED succeeded

Chat ==
    /\ CanChat
    /\ \E user_input \in RawInputs, o1 \in DraftOutcomes, o2 \in FormatOutcomes :
           DoChat(user_input, o1, o2)
    /\ UNCHANGED <<running, line>>

ClearMemory ==
    /\ DoClear
    /\ UNCHANGED <<running, line>>

GetMemorySummary ==
    /\ DoSummary
    /\ UNCHANGED <<running, line>>

GetSessionHistory ==
    /\ \E session_id \in SessionIds :
           /\ memory_store' = get_session_history(memory_store, session_id)
           /\ arg' = <<session_id>>
    /\ op' = "history"
    /\ ret' = NoReturn
    /\ calls' = <<>>
    /\ before' = memory_store
    /\ UNCHANGED <<running, line, succeeded>>

Next == Chat \/ ClearMemory \/ GetMemorySummary \/ GetSessionHistory

Spec == Init /\ [][Next]_vars

----------------------------------------------------------------------------
(* The command loop of main() *)

QUIT_WORDS == { <<"q","u","i","t">>, <<"e","x","i","t">>, <<"b","y","e">> }
CLEAR_WORD == <<"c","l","e","a","r">>
MEMORY_WORD == <<"m","e","m","o","r","y">>

main_dispatch_case_sensitive(user_input) ==
    IF user_input \in QUIT_WORDS THEN "quit"
    ELSE IF user_input = CLEAR_WORD THEN "clear"
    ELSE IF user_input = MEMORY_WORD THEN "summary"
    ELSE IF user_input = <<>> THEN "empty"
    ELSE "chat"

\* The if/elif chain of the loop body, on user_input = input().strip().
main_dispatch(user_input) ==
    IF lower(user_input) \in QUIT_WORDS THEN "quit"
    ELSE IF lower(user_input) = CLEAR_WORD THEN "clear"
    ELSE IF lower(user_input) = MEMORY_WORD THEN "summary"
    ELSE IF user_input = <<>> THEN "empty"
    ELSE "chat"

Reads(l, branch) ==
    /\ running
    /\ main_dispatch(strip(l)) = branch
    /\ line' = l

MainQuit ==
    \E l \in Lines :
        /\ Reads(l, "quit")
        /\ running' = FALSE
        /\ op' = "quit"
        /\ arg' = <<>>
        /\ ret' = NoReturn
        /\ calls' = <<>>
        /\ before' = memory_store
        /\ UNCHANGED <<memory_store, succeeded>>

MainClear ==
    \E l \in Lines :
        /\ Reads(l, "clear")
        /\ DoClear
        /\ UNCHANGED running

MainMemory ==
    \E l \in Lines :
        /\ Reads(l, "summary")
        /\ DoSummary
        /\ UNCHANGED running

MainEmpty ==
    \E l \in Lines :
        /\ Reads(l, "empty")
        /\ op' = "empty"
        /\ arg' = <<>>
        /\ ret' = NoReturn
        /\ calls' = <<>>
        /\ before' = memory_store
        /\ UNCHANGED <<memory_store, running, succeeded>>

MainChat ==
    \E l \in Lines, o1 \in DraftOutcomes, o2 \in FormatOutcomes :
        /\ CanChat
        /\ Reads(l, "chat")
        /\ DoChat(strip(l), o1, o2)
        /\ UNCHANGED running

\* input() raises KeyboardInterrupt: the loop is left.
MainInterrupt ==
    /\ running
    /\ running' = FALSE
    /\ op' = "interrupt"
    /\ arg' = <<>>
    /\ ret' = NoReturn
    /\ calls' = <<>>
    /\ before' = memory_store
    /\ UNCHANGED <<memory_store, line, succeeded>>

\* input() raises an Exception (end of input): reported, and the loop goes on.
MainInputError ==
    /\ running
    /\ op' = "error"
    /\ arg' = <<>>
    /\ ret' = NoReturn
    /\ calls' = <<>>
    /\ before' = memory_store
    /\ UNCHANGED <<memory_store, running, line, succeeded>>

MainNext ==
    \/ MainQuit
    \/ MainClear
    \/ MainMemory
    \/ MainEmpty
    \/ MainChat
    \/ MainInterrupt
    \/ MainInputError

SpecMain == Init /\ [][MainNext]_vars

----------------------------------------------------------------------------
(* What the claims speak of *)

Now == Transcript(memory_store, DEFAULT_SESSION)
Was == Transcript(before, DEFAULT_SESSION)

ChatFailed ==
    op = "chat" /\ \E i \in DOMAIN calls : ~calls[i].outcome.ok

ChatSucceeded ==
    op = "chat" /\ \A i \in DOMAIN calls : calls[i].outcome.ok

\* The Turn Encoder: the input trimmed, or the fallback greeting.
Encoded(raw) ==
    IF strip(raw) = <<>> THEN FALLBACK_GREETING ELSE strip(raw)

\* The most recent n turns of a transcript (a turn is two messages).
LastTurns(t, n) ==
    IF Len(t) > 2 * n THEN SubSeq(t, Len(t) - 2 * n + 1, Len(t)) ELSE t

Alternates(t) ==
    /\ Len(t) % 2 = 0
    /\ \A i \in DOMAIN t : t[i].type = (IF i % 2 = 1 THEN "human" ELSE "ai")

Min(a, b) == IF a < b THEN a ELSE b

\* The lines i..k of a summary of the last k messages of t.
RECURSIVE SummaryLines(_, _, _)
SummaryLines(t, k, i) ==
    IF i > k
    THEN <<>>
    ELSE LET m == t[Len(t) - k + i]
         IN  <<ToString(i), ". ",
               IF m.type = "human" THEN "Human" ELSE "AI", ": ">>
             \o (IF Len(m.content) > 100
                 THEN SubSeq(m.content, 1, 100) \o <<"...">>
                 ELSE m.content)
             \o <<"\n">>
             \o SummaryLines(t, k, i + 1)

----------------------------------------------------------------------------
(* Claims *)

\* C1: a chat call that failed, at the DRAFT call or at the REFORMAT call,
\* leaves the session transcript as it was before the call and returns an
\* error string.
C1_FailedChatLeavesTranscript ==
    ChatFailed =>
        /\ Now = Was
        /\ ~ret.raised
        /\ ret.value = ERROR_PREFIX \o calls[Len(calls)].outcome.text

\* C2: after a successful chat call the assistant message appended to the
\* transcript carries final_text, the output of the REFORMAT call that chat
\* returns; the draft is not what is stored.
C2_FinalTextStored ==
    ChatSucceeded =>
        /\ ret.value = calls[2].outcome.text
        /\ Len(Now) = Len(Was) + 2
        /\ Now[Len(Now)] = AIMessage(ret.value)

\* C3: between operations the transcript has even length and alternates
\* user, assistant from a user message on, and its length is twice the
\* number of chat calls that succeeded since the last clear, failed calls
\* adding nothing.
C3_TwoMessagesPerSuccessfulChat ==
    /\ Alternates(Now)
    /\ Len(Now) = 2 * succeeded

\* C4: the DRAFT call is sent the system preamble, then the most recent
\* MAX_MEMORY_SIZE turns of the stored transcript (all of it when it is
\* shorter), then the new user message; the history part never exceeds
\* the cap.
C4_DraftSeesRecentTurns ==
    op = "chat" =>
        /\ calls[1].request =
               <<SystemMessage(SYSTEM_MESSAGE)>>
                   \o LastTurns(Was, MAX_MEMORY_SIZE)
                   \o <<HumanMessage(Encoded(arg))>>
        /\ Len(calls[1].request) - 2 <= 2 * MAX_MEMORY_SIZE

\* C5: chat never propagates a failure: whatever the llm does at the DRAFT
\* and the REFORMAT call, chat returns a string, final_text on success and
\* the formatted error string on failure.
C5_ChatAlwaysReturnsString ==
    op = "chat" =>
        /\ ~ret.raised
        /\ ChatSucceeded => ret.value = calls[2].outcome.text
        /\ ChatFailed =>
               ret.value = ERROR_PREFIX \o calls[Len(calls)].outcome.text

C5_Witness ==
    /\ op = "chat"
    /\ Len(calls) = 2
    /\ ~calls[2].outcome.ok
    /\ ret.value = ERROR_PREFIX \o calls[2].outcome.text

\* C6: clear resets every session to an empty transcript from any state:
\* a summary taken right after it reports no history, the DRAFT call of
\* the next chat sees no prior turn, and a second clear changes nothing.
C6_ClearResetsEverySession ==
    /\ [](op = "clear" =>
            /\ memory_store = EmptyStore
            /\ \A s \in SessionIds : Transcript(memory_store, s) = <<>>)
    /\ [][op = "clear" =>
            /\ op' = "summary" => ret'.value = NO_HISTORY
            /\ op' = "clear" => memory_store' = memory_store
            /\ op' = "chat" =>
                   /\ Transcript(before', DEFAULT_SESSION) = <<>>
                   /\ calls'[1].request =
                          <<SystemMessage(SYSTEM_MESSAGE),
                            HumanMessage(Encoded(arg'))>>]_vars

C6_Witness ==
    /\ op = "clear"
    /\ Len(Was) >= 4
    /\ "other" \in DOMAIN before
    /\ memory_store = EmptyStore

\* C7: summary leaves every stored transcript as it was, order, count and
\* full content, and returns the last min(6, length) messages in order,
\* numbered from 1 with a role prefix, content over 100 characters cut
\* with an ellipsis in the returned text only; it returns the fixed
\* no-history message when the transcript is empty.
C7_SummaryReadsLastSix ==
    op = "summary" =>
        /\ \A s \in SessionIds :
               Transcript(memory_store, s) = Transcript(before, s)
        /\ ~ret.raised
        /\ ret.value =
               IF Was = <<>>
               THEN NO_HISTORY
               ELSE SUMMARY_HEADER \o SummaryLines(Was, Min(6, Len(Was)), 1)

C7_Witness ==
    /\ op = "summary"
    /\ Len(Was) > 6
    /\ Len(Was[Len(Was)].content) > 100
    /\ Len(Was[2].content) > 100
    /\ Now = Was

\* C8: the user message the Turn Encoder produces (the input trimmed, or
\* the fallback greeting when nothing is left) is what the DRAFT call sees
\* and what is appended to the transcript on success; the raw input is
\* neither sent nor stored.
C8_EncodedInputSentAndStored ==
    op = "chat" =>
        /\ calls[1].request[Len(calls[1].request)] = HumanMessage(Encoded(arg))
        /\ ChatSucceeded =>
               /\ Len(Now) = Len(Was) + 2
               /\ Now[Len(Now) - 1] = HumanMessage(Encoded(arg))

\* C9: a chat invocation is an ordered two-call sequence without retry: the
\* DRAFT call comes first; the REFORMAT call is made exactly when the DRAFT
\* call succeeded and is sent the reformatting instruction and that draft,
\* nothing else; a successful turn makes two calls, a failed one at most two.
C9_DraftThenReformat ==
    op = "chat" =>
        /\ Len(calls) \in 1..2
        /\ calls[1].request[1] = SystemMessage(SYSTEM_MESSAGE)
        /\ (Len(calls) = 2) = calls[1].outcome.ok
        /\ Len(calls) = 2 =>
               calls[2].request =
                   <<SystemMessage(FORMAT_INSTRUCTION),
                     HumanMessage(calls[1].outcome.text)>>
        /\ ChatSucceeded => Len(calls) = 2

C9_Witness ==
    /\ ChatSucceeded
    /\ Len(calls) = 2
    /\ Was # <<>>
    /\ Len(calls[2].request) = 2

\* C10: in the command loop every line goes to exactly one action:
\* quit/exit/bye leaves the loop, clear clears, memory summarises, an
\* empty line reprompts, anything else chats; the llm is called and the
\* transcript grows in the chat case alone, and the loop goes on after
\* every action but leaving, a failed chat included.
C10_OneActionPerLine ==
    LET word == lower(strip(line))
        quits == word \in { <<"q","u","i","t">>, <<"e","x","i","t">>,
                            <<"b","y","e">> }
        clears == word = <<"c","l","e","a","r">>
        shows == word = <<"m","e","m","o","r","y">>
        empty == word = <<>>
    IN  /\ op \in {"quit", "clear", "summary", "empty", "chat"} =>
               /\ (op = "quit") = quits
               /\ (op = "clear") = clears
               /\ (op = "summary") = shows
               /\ (op = "empty") = empty
               /\ (op = "chat") = ~(quits \/ clears \/ shows \/ empty)
        /\ calls # <<>> => op = "chat"
        /\ Len(Now) > Len(Was) => op = "chat"
        /\ running = (op \notin {"quit", "interrupt"})

C10_Witness ==
    /\ ChatFailed
    /\ running
    /\ line = <<" ","h">>

====
